---- MODULE Spec2Model ----
(***************************************************************************)
(* The ActivityPub pipeline of jclem.me: Service.CreateActivity and its    *)
(* inbox/outbox handling inside one database transaction, and the River    *)
(* workers that consume the jobs it enqueues.                              *)
(*                                                                         *)
(* The database tables are sets of rows; a row carries the serial record   *)
(* id the INSERT ... RETURNING statements hand back, so that two rows with *)
(* equal columns stay two rows.  A transaction is the set of rows it has   *)
(* written and not yet committed.                                          *)
(***************************************************************************)
EXTENDS Integers, Sequences, FiniteSets, TLC

\* ---------------------------------------------------------------- bounds
\* Rows of the activities table in one behaviour.
MaxActivities == 2
\* Executions of worker handlers in one behaviour, retries included.
MaxRuns == 2
MaxContextLen == 3

\* ------------------------------------------------------ input universes
Users == {1, 2}
Actors == {"x", "y"}
ActivityIDs == {"a1", "a2"}

Inbox == "inbox"
Outbox == "outbox"

followActivityType == "Follow"
undoActivityType == "Undo"
createActivityType == "Create"

\* An activity type the pipeline has no handling for.
otherActivityType == "Like"

NoError == "nil"

\* The zero value ActivityRecord{}.
ZeroActivityRecord ==
    [rid |-> 0, user |-> 0, mailbox |-> "", typ |-> "", id |-> "", data |-> [type |-> "", id |-> "", actorShape |-> "absent", actor |-> "", object |-> [type |-> "", actor |-> ""]]]

\* The actor ID of a local user (ActorID(user)).
ActorID(user) == IF user = 1 THEN "u1" ELSE "u2"

\* The JSON shapes of the "actor" member of a stored body: a string, an
\* object with a string id, no member at all, or any other JSON value.
ActorShapes == {"string", "object", "absent", "number"}

ActivityStreamsContext == "https://www.w3.org/ns/activitystreams"

\* The address of the public collection.
PublicAddress == ActivityStreamsContext \o "#Public"

\* The "to" member of a body: the list the outbox endpoint gives a Create,
\* and the empty list of a body without the member.
PublicTo == [shape |-> "list", list |-> <<PublicAddress>>]
NoTo == [shape |-> "list", list |-> <<>>]

\* A stored body.  actor is the ID the "actor" member carries: the string
\* itself, or the id member of the object; "" when it carries none.
Body(typ, id, shape, actor, object) ==
    [type |-> typ, id |-> id, actorShape |-> shape,
     actor |-> IF shape \in {"string", "object"} THEN actor ELSE "", object |-> object,
     to |-> IF typ = createActivityType THEN PublicTo ELSE NoTo]

NoObject == [type |-> "", actor |-> ""]

\* The request bodies the inbox endpoint stores: data.type and data.id are
\* the fields acceptActivity also passes as typ and id.
InboxData(typ, id) ==
    IF typ = undoActivityType
    THEN { Body(typ, id, "string", a, [type |-> followActivityType, actor |-> a]) :
             a \in Actors }
    ELSE IF typ = followActivityType
    THEN { Body(typ, id, "string", a, NoObject) : a \in Actors }
    ELSE { Body(typ, id, "string", "x", NoObject) }

\* The bodies the outbox endpoint builds, and bodies a caller of the service
\* can pass besides: an embedded object that is not a Note.
OutboxData(user, typ, id) ==
    { Body(typ, id, "string", ActorID(user), [type |-> t, actor |-> ""]) :
        t \in IF typ = createActivityType THEN {"Note", "Article"} ELSE {"Note"} }

\* The step of CreateActivity that the database or River fails, if any;
\* "enqueue1"/"enqueue2" fail the first/second InsertTx of the call.
FailPoints(mailbox) ==
    IF mailbox = Inbox
    THEN {"none", "begin", "insert", "enqueue1", "commit"}
    ELSE {"none", "begin", "insert", "note", "list", "enqueue1", "enqueue2", "commit"}

\* What the environment does to one execution of a worker: at most one of
\* the handler's database or network steps fails, or the remote inbox
\* answers with a status of the named class.
WorkEnvs ==
    {"ok", "get_db_error", "create_db_error", "delete_db_error", "user_not_found",
     "user_error", "actor_error", "no_inbox", "sign_error", "post_error",
     "status_3xx", "status_4xx", "status_5xx"}

\* The status code of the response when the handler's POST gets one.
Status(env) ==
    IF env = "status_3xx" THEN 304
    ELSE IF env = "status_4xx" THEN 410
    ELSE IF env = "status_5xx" THEN 503
    ELSE 200

VARIABLES
    activities,   \* table activities (committed rows)
    followers,    \* table followers
    notes,        \* table notes
    jobs,         \* River's job table
    last          \* the last operation: its arguments and what it returned

vars == <<activities, followers, notes, jobs, last>>

\* ---------------------------------------------------------------- helpers
Max(S) == CHOOSE m \in S : \A n \in S : n <= m

\* The next value of a table's serial id column.
NextID(S) == IF S = {} THEN 1 ELSE Max({r.rid : r \in S}) + 1

\* The next id River gives a job.
NextJobID(S) == IF S = {} THEN 1 ELSE Max({j.jid : j \in S}) + 1

\* Position of row r when the rows of S are read in id order.
RankIn(S, r) == Cardinality({s \in S : s.rid <= r.rid})

EmptyTx == [acts |-> {}, notes |-> {}, jobs |-> {}]

\* -------------------------------------------------------------- Service
ListFollowersOfAnyUser(user) == followers

ListFollowersSharingActor(user) ==
    {f \in followers : \E g \in followers : g.user = user /\ g.actor = f.actor}

\* ListFollowers: the follower rows of the user, read through the pool.
ListFollowers(user) == {f \in followers : f.user = user}

\* insertActivityRecord: INSERT INTO activities ... RETURNING, on the tx.
insertActivityRecord(tx, user, mailbox, typ, id, data, fail) ==
    IF fail = "insert"
    THEN [tx |-> tx, err |-> "failed to insert activity", ar |-> ZeroActivityRecord]
    ELSE LET row == [rid |-> NextID(activities \cup tx.acts), user |-> user,
                     mailbox |-> mailbox, typ |-> typ, id |-> id, data |-> data]
         IN [tx |-> [tx EXCEPT !.acts = @ \cup {row}], err |-> NoError, ar |-> row]

\* insertNote: INSERT INTO notes ... RETURNING, on the tx.
insertNote(tx, user, activityID, note, fail) ==
    IF fail = "note"
    THEN [tx |-> tx, err |-> "failed to insert note"]
    ELSE LET row == [rid |-> NextID(notes \cup tx.notes), user |-> user,
                     activity |-> activityID, object |-> note]
         IN [tx |-> [tx EXCEPT !.notes = @ \cup {row}], err |-> NoError]

\* A freshly inserted River job.
NewJob(jid, kind, user, activityID, followerID) ==
    [jid |-> jid, kind |-> kind, user |-> user, activity |-> activityID,
     follower |-> followerID, state |-> "available", attempt |-> 0]

handleInboxEnqueuesAnyType(tx, user, ar, fail) ==
    IF fail = "enqueue1"
    THEN [tx |-> tx, err |-> "failed to insert follow job"]
    ELSE [tx |-> [tx EXCEPT !.jobs = @ \cup
                    {NewJob(NextJobID(jobs \cup tx.jobs), "handle-inbox", user, ar.id, "")}],
          err |-> NoError]

\* handleInbox: enqueue the inbox job of a Follow, ignore anything else.
handleInbox(tx, user, ar, fail) ==
    IF ar.typ # "Follow"
    THEN [tx |-> tx, err |-> NoError]
    ELSE IF fail = "enqueue1"
    THEN [tx |-> tx, err |-> "failed to insert follow job"]
    ELSE [tx |-> [tx EXCEPT !.jobs = @ \cup
                    {NewJob(NextJobID(jobs \cup tx.jobs), "handle-inbox", user, ar.id, "")}],
          err |-> NoError]

\* The enqueue loop of handleOutbox over the follower rows fs.
enqueueDeliveriesForFollowerActivity(tx, user, activityID, fs, fail) ==
    LET base == NextJobID(jobs \cup tx.jobs)
        failAt == IF fail = "enqueue1" THEN 1 ELSE IF fail = "enqueue2" THEN 2 ELSE 0
        done == {f \in fs : failAt = 0 \/ RankIn(fs, f) < failAt}
        new == {NewJob(base + RankIn(fs, f) - 1, "handle-outbox", user, f.activity, f.actor) :
                   f \in done}
    IN [tx |-> [tx EXCEPT !.jobs = @ \cup new],
        err |-> IF done = fs THEN NoError ELSE "failed to insert outbox job"]

enqueueDeliveries(tx, user, activityID, fs, fail) ==
    LET base == NextJobID(jobs \cup tx.jobs)
        failAt == IF fail = "enqueue1" THEN 1 ELSE IF fail = "enqueue2" THEN 2 ELSE 0
        done == {f \in fs : failAt = 0 \/ RankIn(fs, f) < failAt}
        new == {NewJob(base + RankIn(fs, f) - 1, "handle-outbox", user, activityID, f.actor) :
                   f \in done}
    IN [tx |-> [tx EXCEPT !.jobs = @ \cup new],
        err |-> IF done = fs THEN NoError ELSE "failed to insert outbox job"]

handleOutboxWithoutObjectCheck(tx, user, ar, fail) ==
    IF ar.typ # "Create"
    THEN [tx |-> tx, err |-> "invalid activity type"]
    ELSE LET ao == ar.data
             n == insertNote(tx, user, ao.id, ao.object, fail) IN
    IF n.err # NoError
    THEN [tx |-> n.tx, err |-> "failed to create note"]
    ELSE IF fail = "list"
    THEN [tx |-> n.tx, err |-> "failed to list followers"]
    ELSE enqueueDeliveries(n.tx, user, ao.id, ListFollowers(user), fail)

handleOutboxIgnoresListError(tx, user, ar, fail) ==
    IF ar.typ # "Create"
    THEN [tx |-> tx, err |-> "invalid activity type"]
    ELSE LET ao == ar.data IN
    IF ao.object.type # "Note"
    THEN [tx |-> tx, err |-> "invalid object type"]
    ELSE LET n == insertNote(tx, user, ao.id, ao.object, fail) IN
    IF n.err # NoError
    THEN [tx |-> n.tx, err |-> "failed to create note"]
    ELSE IF fail = "list"
    THEN [tx |-> n.tx, err |-> NoError]
    ELSE enqueueDeliveries(n.tx, user, ao.id, ListFollowers(user), fail)

\* handleOutbox: validate Create(Note), insert the note, enqueue one
\* delivery job per follower row.
handleOutbox(tx, user, ar, fail) ==
    IF ar.typ # "Create"
    THEN [tx |-> tx, err |-> "invalid activity type"]
    ELSE LET ao == ar.data IN
    IF ao.object.type # "Note"
    THEN [tx |-> tx, err |-> "invalid object type"]
    ELSE LET n == insertNote(tx, user, ao.id, ao.object, fail) IN
    IF n.err # NoError
    THEN [tx |-> n.tx, err |-> "failed to create note"]
    ELSE IF fail = "list"
    THEN [tx |-> n.tx, err |-> "failed to list followers"]
    ELSE enqueueDeliveries(n.tx, user, ao.id, ListFollowers(user), fail)

endTransactionWithoutRollback(tx, err, fail, rollbackFails) ==
    [acts |-> activities \cup tx.acts, notes |-> notes \cup tx.notes,
     jobs |-> jobs \cup tx.jobs, err |-> NoError, rollback |-> ""]

endTransactionReturnsRollbackError(tx, err, fail, rollbackFails) ==
    IF err # NoError
    THEN [acts |-> activities, notes |-> notes, jobs |-> jobs,
          err |-> IF rollbackFails THEN "failed to rollback transaction" ELSE NoError,
          rollback |-> IF rollbackFails THEN "failed" ELSE "ok"]
    ELSE IF fail = "commit"
    THEN [acts |-> activities, notes |-> notes, jobs |-> jobs,
          err |-> "failed to commit transaction", rollback |-> ""]
    ELSE [acts |-> activities \cup tx.acts, notes |-> notes \cup tx.notes,
          jobs |-> jobs \cup tx.jobs, err |-> NoError, rollback |-> ""]

\* endTransaction: roll back on an error, commit otherwise; db is what the
\* tables hold afterwards, err the error endTransaction itself returns.  A
\* rollback that fails is logged and nil is returned; the transaction's
\* writes are not committed either way.
endTransaction(tx, err, fail, rollbackFails) ==
    IF err # NoError
    THEN [acts |-> activities, notes |-> notes, jobs |-> jobs, err |-> NoError,
          rollback |-> IF rollbackFails THEN "failed" ELSE "ok"]
    ELSE IF fail = "commit"
    THEN [acts |-> activities, notes |-> notes, jobs |-> jobs,
          err |-> "failed to commit transaction", rollback |-> ""]
    ELSE [acts |-> activities \cup tx.acts, notes |-> notes \cup tx.notes,
          jobs |-> jobs \cup tx.jobs, err |-> NoError, rollback |-> ""]

\* The body of CreateActivity after BeginTx succeeded: the steps on the tx,
\* then the deferred endTransaction.
CreateActivityTx(user, mailbox, typ, id, data, fail, rollbackFails) ==
    LET i == insertActivityRecord(EmptyTx, user, mailbox, typ, id, data, fail)
        h == IF i.err # NoError
             THEN [tx |-> i.tx, err |-> "failed to create activity record: " \o i.err]
             ELSE IF mailbox = Inbox
             THEN LET r == handleInbox(i.tx, user, i.ar, fail)
                  IN [tx |-> r.tx,
                      err |-> IF r.err = NoError THEN NoError
                              ELSE "failed to handle inbox: " \o r.err]
             ELSE LET r == handleOutbox(i.tx, user, i.ar, fail)
                  IN [tx |-> r.tx,
                      err |-> IF r.err = NoError THEN NoError
                              ELSE "failed to handle outbox: " \o r.err]
        e == endTransaction(h.tx, h.err, fail, rollbackFails)
    IN [acts |-> e.acts, notes |-> e.notes, jobs |-> e.jobs, rollback |-> e.rollback,
        err |-> IF e.err # NoError THEN e.err ELSE h.err,
        ar |-> IF h.err # NoError THEN ZeroActivityRecord ELSE i.ar]

\* A request without an Authorization header.
NoAuth == [scheme |-> "", parts |-> 0, id |-> "", value |-> ""]

\* The record of an operation: of a call of CreateActivity its mailbox,
\* activity type, embedded object type, failed step, returned error and the
\* record id of the returned ActivityRecord (0: the zero value) and what
\* became of the rollback when there was one ("ok", "failed"); of a worker
\* execution the job, the number of the execution, the handler's result
\* ("ok": nil, "cancel": JobCancel, "error": any other error) and whether it
\* wrote the follower table, fetched the remote actor and sent its POST,
\* and what the environment did to the execution; of a request to an
\* endpoint also the state of its signature (inbox), its Authorization
\* header and the username of its path (outbox), the shape of its @context
\* (inbox) and the status code of the response.
NoOp ==
    [op |-> "", mailbox |-> "", typ |-> "", objType |-> "", fail |-> "none",
     err |-> NoError, rid |-> 0, jid |-> 0, attempt |-> 0, res |-> "",
     wrote |-> FALSE, fetched |-> FALSE, posted |-> FALSE, env |-> "",
     sig |-> "", auth |-> NoAuth, ctx |-> "", path |-> "", http |-> 0,
     rollback |-> ""]

CallRecord(mailbox, typ, objType, fail, err, rid) ==
    [NoOp EXCEPT !.op = "CreateActivity", !.mailbox = mailbox, !.typ = typ,
                 !.objType = objType, !.fail = fail, !.err = err, !.rid = rid]

RunRecord(job, after, typ, r, env) ==
    [NoOp EXCEPT !.op = "Work", !.jid = job.jid, !.attempt = after.attempt,
                 !.typ = typ, !.res = r.res, !.wrote = r.wrote,
                 !.fetched = r.fetched, !.posted = r.posted, !.env = env]

\* What a call of CreateActivity returns and leaves in the tables.
CreateActivityResult(user, mailbox, typ, id, data, fail, rollbackFails) ==
    IF fail = "begin"
    THEN [acts |-> activities, notes |-> notes, jobs |-> jobs, rollback |-> "",
          err |-> "failed to begin transaction", ar |-> ZeroActivityRecord]
    ELSE CreateActivityTx(user, mailbox, typ, id, data, fail, rollbackFails)

\* Service.CreateActivity; rollbackFails tells whether a rollback, if the
\* call comes to one, fails.
CreateActivityCall(user, mailbox, typ, id, data, fail, rollbackFails) ==
    /\ Cardinality(activities) < MaxActivities
    /\ LET r == CreateActivityResult(user, mailbox, typ, id, data, fail, rollbackFails)
       IN /\ activities' = r.acts
          /\ notes' = r.notes
          /\ jobs' = r.jobs
          /\ last' = [CallRecord(mailbox, typ, data.object.type, fail, r.err, r.ar.rid)
                        EXCEPT !.rollback = r.rollback]
    /\ UNCHANGED followers

\* Service.CreateActivity, its rollbacks succeeding.
CreateActivity(user, mailbox, typ, id, data, fail) ==
    CreateActivityCall(user, mailbox, typ, id, data, fail, FALSE)

GetActivityByIDOfAnyUser(user, id) == {a \in activities : a.id = id}

\* GetActivityByID: the rows the point lookup by (user_id, activity_id) can
\* return; QueryRow scans the first row of the result.
GetActivityByID(user, id) == {a \in activities : a.user = user /\ a.id = id}

\* What GetActivityByID can return: ErrActivityNotFound with the zero
\* record when no row matches, otherwise a matching row and nil.
GetActivityByIDResults(user, id) ==
    IF GetActivityByID(user, id) = {}
    THEN {[ar |-> ZeroActivityRecord, err |-> "activity not found"]}
    ELSE {[ar |-> a, err |-> NoError] : a \in GetActivityByID(user, id)}

\* time.Now() as the created_at column of a follower row records it: the
\* time is counted in activity rows stored so far, so that a follower row
\* was created before activity row a was stored iff its createdAt < a.rid.
Now == Cardinality(activities)

\* CreateFollower: INSERT INTO followers ... RETURNING, through the pool.
CreateFollower(user, actorID, activityID, env) ==
    IF env = "create_db_error"
    THEN [res |-> "error", followers |-> followers]
    ELSE [res |-> "ok",
          followers |-> followers \cup
              {[rid |-> NextID(followers), user |-> user, actor |-> actorID,
                activity |-> activityID, createdAt |-> Now]}]

DeleteFollowerFailsWithoutRow(user, actorID, env) ==
    IF env = "delete_db_error" \/ ~ \E f \in followers : f.user = user /\ f.actor = actorID
    THEN [res |-> "error", followers |-> followers]
    ELSE [res |-> "ok",
          followers |-> {f \in followers : ~(f.user = user /\ f.actor = actorID)}]

\* DeleteFollower: delete the rows of (user, actor); no error when none
\* matches.
DeleteFollower(user, actorID, env) ==
    IF env = "delete_db_error"
    THEN [res |-> "error", followers |-> followers]
    ELSE [res |-> "ok",
          followers |-> {f \in followers : ~(f.user = user /\ f.actor = actorID)}]

\* ------------------------------------------------------------- workers
GetActorWithDefaultInbox(actorID, env) ==
    IF actorID = "" \/ env = "actor_error"
    THEN [res |-> "error", inbox |-> ""]
    ELSE [res |-> "ok", inbox |-> "inbox"]

\* GetActor: fetch of the remote actor document from the URL actorID; a
\* request to the empty URL cannot be sent.
GetActor(actorID, env) ==
    IF actorID = "" \/ env = "actor_error"
    THEN [res |-> "error", inbox |-> ""]
    ELSE [res |-> "ok", inbox |-> IF env = "no_inbox" THEN "" ELSE "inbox"]

\* json.Unmarshal of a stored body into Activity[any], whose Actor is a
\* string: a string is taken, an absent member leaves "", any other value
\* is an error.
Unmarshal(data) ==
    IF data.actorShape \in {"string", "absent"}
    THEN [ok |-> TRUE, ao |-> [data EXCEPT !.actor = IF data.actorShape = "string" THEN @ ELSE ""]]
    ELSE [ok |-> FALSE, ao |-> [data EXCEPT !.actor = ""]]

\* What a handler that stopped before any store write or request returns.
Stopped(res) ==
    [res |-> res, followers |-> followers, wrote |-> FALSE, fetched |-> FALSE,
     posted |-> FALSE]

AcceptStatusRetriesEveryFailure(env) ==
    IF 200 <= Status(env) /\ Status(env) < 300 THEN "ok" ELSE "error"

\* Classification of the response to the Accept POST.
AcceptStatusTakes3xxForSuccess(env) ==
    IF ~(200 <= Status(env) /\ Status(env) < 400)
    THEN IF Status(env) >= 500 THEN "error" ELSE "cancel"
    ELSE "ok"

AcceptStatus(env) ==
    IF ~(200 <= Status(env) /\ Status(env) < 300)
    THEN IF Status(env) >= 500 THEN "error" ELSE "cancel"
    ELSE "ok"

acceptActivityCancelsOnActorError(user, activity, actorID, env) ==
    IF env = "user_not_found" THEN [res |-> "cancel", fetched |-> FALSE, posted |-> FALSE]
    ELSE IF env = "user_error" THEN [res |-> "error", fetched |-> FALSE, posted |-> FALSE]
    ELSE LET actor == GetActor(actorID, env) IN
    IF actor.res # "ok" THEN [res |-> "cancel", fetched |-> actorID # "", posted |-> FALSE]
    ELSE IF actor.inbox = "" THEN [res |-> "cancel", fetched |-> TRUE, posted |-> FALSE]
    ELSE IF env = "sign_error" THEN [res |-> "error", fetched |-> TRUE, posted |-> FALSE]
    ELSE IF env = "post_error" THEN [res |-> "error", fetched |-> TRUE, posted |-> FALSE]
    ELSE [res |-> AcceptStatus(env), fetched |-> TRUE, posted |-> TRUE]

\* HandleInboxWorker.acceptActivity: look up the user, fetch the actor,
\* sign and POST the Accept; fetched and posted tell whether the actor
\* fetch and the POST were sent.
acceptActivity(user, activity, actorID, env) ==
    IF env = "user_not_found" THEN [res |-> "cancel", fetched |-> FALSE, posted |-> FALSE]
    ELSE IF env = "user_error" THEN [res |-> "error", fetched |-> FALSE, posted |-> FALSE]
    ELSE LET actor == GetActor(actorID, env) IN
    IF actor.res # "ok" THEN [res |-> "error", fetched |-> actorID # "", posted |-> FALSE]
    ELSE IF actor.inbox = "" THEN [res |-> "cancel", fetched |-> TRUE, posted |-> FALSE]
    ELSE IF env = "sign_error" THEN [res |-> "error", fetched |-> TRUE, posted |-> FALSE]
    ELSE IF env = "post_error" THEN [res |-> "error", fetched |-> TRUE, posted |-> FALSE]
    ELSE [res |-> AcceptStatus(env), fetched |-> TRUE, posted |-> TRUE]

\* HandleInboxWorker.createFollower.
createFollower(user, activity, actorID, env) ==
    IF activity.typ # followActivityType
    THEN [res |-> "cancel", followers |-> followers]
    ELSE CreateFollower(user, actorID, activity.id, env)

handleFollowAcceptsFirst(user, ar, ao, env) ==
    LET a == acceptActivity(user, ar, ao.actor, env) IN
    IF a.res # "ok"
    THEN [res |-> a.res, followers |-> followers, wrote |-> FALSE,
          fetched |-> a.fetched, posted |-> a.posted]
    ELSE LET c == createFollower(user, ar, ao.actor, env)
         IN [res |-> c.res, followers |-> c.followers, wrote |-> c.res = "ok",
             fetched |-> a.fetched, posted |-> a.posted]

\* HandleInboxWorker.handleFollow: record the follower, then accept.
handleFollow(user, ar, ao, env) ==
    LET c == createFollower(user, ar, ao.actor, env) IN
    IF c.res # "ok"
    THEN Stopped(c.res)
    ELSE LET a == acceptActivity(user, ar, ao.actor, env)
         IN [res |-> a.res, followers |-> c.followers, wrote |-> TRUE,
             fetched |-> a.fetched, posted |-> a.posted]

handleUndoWithoutActorCheck(user, ar, ao, env) ==
    LET undoneActivity == ao.object IN
    IF undoneActivity.type # followActivityType
    THEN Stopped("cancel")
    ELSE LET d == DeleteFollower(user, undoneActivity.actor, env) IN
    IF d.res # "ok"
    THEN Stopped("error")
    ELSE LET a == acceptActivity(user, ar, ao.actor, env)
         IN [res |-> a.res, followers |-> d.followers, wrote |-> TRUE,
             fetched |-> a.fetched, posted |-> a.posted]

\* HandleInboxWorker.handleUndo: the wrapped activity must be a Follow of
\* the same actor; delete the follower, then accept.
handleUndo(user, ar, ao, env) ==
    LET undoneActivity == ao.object IN
    IF ao.actor # undoneActivity.actor
    THEN Stopped("cancel")
    ELSE IF undoneActivity.type # followActivityType
    THEN Stopped("cancel")
    ELSE LET d == DeleteFollower(user, undoneActivity.actor, env) IN
    IF d.res # "ok"
    THEN Stopped("error")
    ELSE LET a == acceptActivity(user, ar, ao.actor, env)
         IN [res |-> a.res, followers |-> d.followers, wrote |-> TRUE,
             fetched |-> a.fetched, posted |-> a.posted]

InboxWorkRetriesBadBody(job, rows, ar, env) ==
    IF env = "get_db_error" THEN Stopped("error")
    ELSE IF rows = {} THEN Stopped("cancel")
    ELSE LET u == Unmarshal(ar.data) IN
    IF ~u.ok THEN Stopped("error")
    ELSE IF u.ao.type = followActivityType THEN handleFollow(job.user, ar, u.ao, env)
    ELSE IF u.ao.type = undoActivityType THEN handleUndo(job.user, ar, u.ao, env)
    ELSE Stopped("ok")

\* HandleInboxWorker.Work on the activity row rows holds (none: not found).
InboxWork(job, rows, ar, env) ==
    IF env = "get_db_error" THEN Stopped("error")
    ELSE IF rows = {} THEN Stopped("cancel")
    ELSE LET u == Unmarshal(ar.data) IN
    IF ~u.ok THEN Stopped("cancel")
    ELSE IF u.ao.type = followActivityType THEN handleFollow(job.user, ar, u.ao, env)
    ELSE IF u.ao.type = undoActivityType THEN handleUndo(job.user, ar, u.ao, env)
    ELSE Stopped("ok")

OutboxWorkTakes200ForFailure(job, rows, ar, env) ==
    IF env = "get_db_error" THEN Stopped("error")
    ELSE IF rows = {} THEN Stopped("cancel")
    ELSE IF ~Unmarshal(ar.data).ok THEN Stopped("cancel")
    ELSE LET actor == GetActor(job.follower, env)
             sent(res, posted) ==
                 [res |-> res, followers |-> followers, wrote |-> FALSE,
                  fetched |-> job.follower # "", posted |-> posted] IN
    IF actor.res # "ok" THEN sent("error", FALSE)
    ELSE IF actor.inbox = "" THEN sent("cancel", FALSE)
    ELSE IF env \in {"user_not_found", "user_error", "sign_error"}
    THEN sent("error", FALSE)
    ELSE IF env = "post_error" THEN sent("error", FALSE)
    ELSE IF ~(200 < Status(env) /\ Status(env) < 300) THEN sent("error", TRUE)
    ELSE sent("ok", TRUE)

\* HandleOutboxWorker.Work: load the activity, fetch the follower's actor,
\* sign and POST the activity to its inbox.
OutboxWork(job, rows, ar, env) ==
    IF env = "get_db_error" THEN Stopped("error")
    ELSE IF rows = {} THEN Stopped("cancel")
    ELSE IF ~Unmarshal(ar.data).ok THEN Stopped("cancel")
    ELSE LET actor == GetActor(job.follower, env)
             sent(res, posted) ==
                 [res |-> res, followers |-> followers, wrote |-> FALSE,
                  fetched |-> job.follower # "", posted |-> posted] IN
    IF actor.res # "ok" THEN sent("error", FALSE)
    ELSE IF actor.inbox = "" THEN sent("cancel", FALSE)
    ELSE IF env \in {"user_not_found", "user_error", "sign_error"}
    THEN sent("error", FALSE)
    ELSE IF env = "post_error" THEN sent("error", FALSE)
    ELSE IF ~(200 <= Status(env) /\ Status(env) < 300) THEN sent("error", TRUE)
    ELSE sent("ok", TRUE)

\* River's bookkeeping of one execution: nil completes the job, JobCancel
\* cancels it, any other error makes it available again for a retry.
RiverOutcome(job, res) ==
    [job EXCEPT !.attempt = @ + 1,
                !.state = IF res = "ok" THEN "completed"
                          ELSE IF res = "cancel" THEN "cancelled"
                          ELSE "available"]

RECURSIVE Executions(_)
\* The executions the jobs of S have had so far.
Executions(S) ==
    IF S = {} THEN 0
    ELSE LET j == CHOOSE x \in S : TRUE IN j.attempt + Executions(S \ {j})

InboxExecutionInOrder(job, env) ==
    /\ job \in jobs
    /\ job.kind = "handle-inbox"
    /\ job.state = "available"
    /\ \A k \in jobs : k.jid < job.jid => k.state # "available"
    /\ LET rows == GetActivityByID(job.user, job.activity) IN
       \E ar \in IF rows = {} THEN {ZeroActivityRecord} ELSE rows :
          LET r == InboxWork(job, rows, ar, env)
              after == RiverOutcome(job, r.res)
          IN /\ followers' = r.followers
             /\ jobs' = (jobs \ {job}) \cup {after}
             /\ last' = RunRecord(job, after, ar.data.type, r, env)
    /\ UNCHANGED <<activities, notes>>

\* One execution of HandleInboxWorker.Work and River's bookkeeping of it.
InboxExecution(job, env) ==
    /\ job \in jobs
    /\ job.kind = "handle-inbox"
    /\ job.state = "available"
    /\ LET rows == GetActivityByID(job.user, job.activity) IN
       \E ar \in IF rows = {} THEN {ZeroActivityRecord} ELSE rows :
          LET r == InboxWork(job, rows, ar, env)
              after == RiverOutcome(job, r.res)
          IN /\ followers' = r.followers
             /\ jobs' = (jobs \ {job}) \cup {after}
             /\ last' = RunRecord(job, after, ar.data.type, r, env)
    /\ UNCHANGED <<activities, notes>>

\* One execution of HandleInboxWorker.Work by River.
HandleInboxWork(job, env) ==
    /\ Executions(jobs) < MaxRuns
    /\ InboxExecution(job, env)

OutboxExecutionCancelsSiblings(job, env) ==
    /\ job \in jobs
    /\ job.kind = "handle-outbox"
    /\ job.state = "available"
    /\ LET rows == GetActivityByID(job.user, job.activity) IN
       \E ar \in IF rows = {} THEN {ZeroActivityRecord} ELSE rows :
          LET r == OutboxWork(job, rows, ar, env)
              after == RiverOutcome(job, r.res)
              others == jobs \ {job}
          IN /\ jobs' = IF r.res = "cancel"
                        THEN {after} \cup
                             {IF k.activity = job.activity /\ k.state = "available"
                              THEN [k EXCEPT !.state = "cancelled"] ELSE k : k \in others}
                        ELSE others \cup {after}
             /\ last' = RunRecord(job, after, ar.data.type, r, env)
    /\ UNCHANGED <<activities, followers, notes>>

\* One execution of HandleOutboxWorker.Work and River's bookkeeping of it.
OutboxExecution(job, env) ==
    /\ job \in jobs
    /\ job.kind = "handle-outbox"
    /\ job.state = "available"
    /\ LET rows == GetActivityByID(job.user, job.activity) IN
       \E ar \in IF rows = {} THEN {ZeroActivityRecord} ELSE rows :
          LET r == OutboxWork(job, rows, ar, env)
              after == RiverOutcome(job, r.res)
          IN /\ jobs' = (jobs \ {job}) \cup {after}
             /\ last' = RunRecord(job, after, ar.data.type, r, env)
    /\ UNCHANGED <<activities, followers, notes>>

\* One execution of HandleOutboxWorker.Work by River.
HandleOutboxWork(job, env) ==
    /\ Executions(jobs) < MaxRuns
    /\ OutboxExecution(job, env)

Init ==
    /\ activities = {}
    /\ followers = {}
    /\ notes = {}
    /\ jobs = {}
    /\ last = NoOp

\* A call of CreateActivity for the inbox, as acceptActivity makes it.
CreateInboxActivity ==
    \E user \in Users, typ \in {followActivityType, undoActivityType, otherActivityType},
       id \in ActivityIDs, fail \in FailPoints(Inbox) :
       \E data \in InboxData(typ, id) :
          CreateActivity(user, Inbox, typ, id, data, fail)

\* A call of CreateActivity for the outbox.
CreateOutboxActivity ==
    \E user \in Users, typ \in {createActivityType, followActivityType},
       id \in ActivityIDs, fail \in FailPoints(Outbox) :
       \E data \in OutboxData(user, typ, id) :
          CreateActivity(user, Outbox, typ, id, data, fail)

\* A call of CreateActivity for the inbox or for the outbox whose rollback,
\* if it comes to one, succeeds or fails.
CreateActivityRollingBack ==
    \E user \in Users, mailbox \in {Inbox, Outbox}, id \in ActivityIDs,
       rollbackFails \in BOOLEAN :
       \E typ \in IF mailbox = Inbox
                  THEN {followActivityType, undoActivityType, otherActivityType}
                  ELSE {createActivityType, followActivityType},
          fail \in FailPoints(mailbox) :
          \E data \in IF mailbox = Inbox THEN InboxData(typ, id)
                       ELSE OutboxData(user, typ, id) :
             CreateActivityCall(user, mailbox, typ, id, data, fail, rollbackFails)

WorkInbox == \E job \in jobs, env \in WorkEnvs : HandleInboxWork(job, env)

WorkOutbox == \E job \in jobs, env \in WorkEnvs : HandleOutboxWork(job, env)

Next ==
    \/ CreateInboxActivity
    \/ CreateOutboxActivity
    \/ WorkInbox
    \/ WorkOutbox

\* ----------------------------------------------------------- the endpoints
\* The username of a request's path: of user 1, of user 2, of nobody.
Usernames == {"u1", "u2", "nobody"}

\* identity.GetUserByUsername; 0: ErrUserNotFound.
GetUserByUsername(username) ==
    IF username = "u1" THEN 1 ELSE IF username = "u2" THEN 2 ELSE 0

\* The rows of the api_keys table.
APIKeys ==
    { [id |-> "k1", value |-> "v1", user |-> 1],
      [id |-> "k2", value |-> "v2", user |-> 2] }

\* Authorization headers: none; a scheme other than Bearer; a Bearer
\* token without a dot (parts = 1); tokens "id.value" (parts = 2) with an
\* unknown id, with a wrong value, and the keys of the two users.
AuthHeaders ==
    { NoAuth,
      [scheme |-> "Basic", parts |-> 2, id |-> "k1", value |-> "v1"],
      [scheme |-> "Bearer", parts |-> 1, id |-> "k1", value |-> ""],
      [scheme |-> "Bearer", parts |-> 2, id |-> "k9", value |-> "v1"],
      [scheme |-> "Bearer", parts |-> 2, id |-> "k1", value |-> "v2"],
      [scheme |-> "Bearer", parts |-> 2, id |-> "k1", value |-> "v1"],
      [scheme |-> "Bearer", parts |-> 2, id |-> "k2", value |-> "v2"] }

\* Whether the signature of an inbox request verifies against the actor
\* the body claims, fails to, or is missing.
Signatures == {"valid", "invalid", "none"}

\* The step of a request that fails, if any: the api_keys query or the
\* public key lookup of the outbox endpoint, or the commit of CreateActivity.
HttpFailPoints(mailbox) ==
    IF mailbox = Outbox THEN {"none", "apikey", "pubkey", "commit"}
    ELSE {"none", "commit"}

ValidateAPIKeyByIDOnly(key, fail) ==
    IF key.parts # 2 THEN [user |-> 0, err |-> "invalid API key"]
    ELSE IF fail = "apikey" THEN [user |-> 0, err |-> "could not query row"]
    ELSE LET rows == {k \in APIKeys : k.id = key.id} IN
    IF rows = {} THEN [user |-> 0, err |-> "invalid API key"]
    ELSE [user |-> (CHOOSE k \in rows : TRUE).user, err |-> NoError]

\* identity.ValidateAPIKey: split "id.value", look the id up, compare the
\* value, return the key's user.
ValidateAPIKey(key, fail) ==
    IF key.parts # 2 THEN [user |-> 0, err |-> "invalid API key"]
    ELSE IF fail = "apikey" THEN [user |-> 0, err |-> "could not query row"]
    ELSE LET rows == {k \in APIKeys : k.id = key.id} IN
    IF rows = {} THEN [user |-> 0, err |-> "invalid API key"]
    ELSE LET apikey == CHOOSE k \in rows : TRUE IN
    IF apikey.value # key.value THEN [user |-> 0, err |-> "invalid API key"]
    ELSE [user |-> apikey.user, err |-> NoError]

\* verifyBearerToken: 401 without a header, for a header that is not
\* "Bearer <token>" and for a token ValidateAPIKey rejects; otherwise the
\* key's user replaces the user of the request context (code 0: go on).
verifyBearerToken(auth, fail) ==
    IF auth.scheme = "" THEN [code |-> 401, user |-> 0]
    ELSE IF auth.scheme # "Bearer" \/ auth.parts = 0 THEN [code |-> 401, user |-> 0]
    ELSE LET v == ValidateAPIKey(auth, fail) IN
    IF v.err # NoError THEN [code |-> 401, user |-> 0]
    ELSE [code |-> 0, user |-> v.user]

\* The record of a request the endpoint answered without calling
\* CreateActivity.
RejectRecord(mailbox, sig, auth, code) ==
    [NoOp EXCEPT !.op = "Rejected", !.mailbox = mailbox, !.sig = sig,
                 !.auth = auth, !.http = code]

Reject(mailbox, sig, auth, code) ==
    /\ last' = RejectRecord(mailbox, sig, auth, code)
    /\ UNCHANGED <<activities, followers, notes, jobs>>

\* The endpoint's call of CreateActivity and its response: 201, or 500 when
\* the call returns an error.
Serve(user, mailbox, typ, id, data, fail, sig, auth, context, path) ==
    /\ Cardinality(activities) < MaxActivities
    /\ LET r == CreateActivityResult(user, mailbox, typ, id, data, fail, FALSE)
       IN /\ activities' = r.acts
          /\ notes' = r.notes
          /\ jobs' = r.jobs
          /\ last' = [CallRecord(mailbox, typ, data.object.type, fail, r.err, r.ar.rid)
                        EXCEPT !.sig = sig, !.auth = auth, !.ctx = context,
                               !.path = path,
                               !.http = IF r.err = NoError THEN 201 ELSE 500]
    /\ UNCHANGED followers

\* The shapes of the @context of a posted activity: a single string, or an
\* array of strings and objects.
ContextShapes == {"string", "array"}

\* json.Unmarshal of a request body into activityInput, whose Context field
\* is a Go string: a JSON array for @context is a type error.
DecodeActivityInput(context) == context = "string"

\* POST /~{username}/inbox: ensureUser, then acceptActivity, which decodes
\* the body into activityInput before it calls CreateActivity.
PostInbox(username, sig, context, typ, id, data, fail) ==
    LET user == GetUserByUsername(username) IN
    IF user = 0 THEN Reject(Inbox, sig, NoAuth, 404)
    ELSE IF ~DecodeActivityInput(context)
    THEN /\ last' = [RejectRecord(Inbox, sig, NoAuth, 500) EXCEPT !.ctx = context]
         /\ UNCHANGED <<activities, followers, notes, jobs>>
    ELSE Serve(user, Inbox, typ, id, data, fail, sig, NoAuth, context, "")

\* The ids no activity row has yet.
UnusedIDs == ActivityIDs \ {a.id : a \in activities}

\* The id createActivity makes from a new UUID.
NewActivityID == CHOOSE id \in UnusedIDs : TRUE

PostOutboxForPathUser(username, auth, noteType, fail) ==
    LET v == verifyBearerToken(auth, fail)
        user == GetUserByUsername(username) IN
    IF user = 0 THEN Reject(Outbox, "", auth, 404)
    ELSE IF v.code # 0 THEN Reject(Outbox, "", auth, v.code)
    ELSE IF fail = "pubkey" THEN Reject(Outbox, "", auth, 500)
    ELSE IF noteType # "Note" THEN Reject(Outbox, "", auth, 422)
    ELSE /\ UnusedIDs # {}
         /\ Serve(user, Outbox, createActivityType, NewActivityID,
                  Body(createActivityType, NewActivityID, "string", ActorID(user),
                       [type |-> "Note", actor |-> ""]),
                  fail, "", auth, "", username)

\* POST /~{username}/outbox: ensureUser, verifyBearerToken, then
\* createActivity for the user of the request context, with a fresh id.
PostOutbox(username, auth, noteType, fail) ==
    LET v == verifyBearerToken(auth, fail) IN
    IF GetUserByUsername(username) = 0 THEN Reject(Outbox, "", auth, 404)
    ELSE IF v.code # 0 THEN Reject(Outbox, "", auth, v.code)
    ELSE IF fail = "pubkey" THEN Reject(Outbox, "", auth, 500)
    ELSE IF noteType # "Note" THEN Reject(Outbox, "", auth, 422)
    ELSE /\ UnusedIDs # {}
         /\ Serve(v.user, Outbox, createActivityType, NewActivityID,
                  Body(createActivityType, NewActivityID, "string", ActorID(v.user),
                       [type |-> "Note", actor |-> ""]),
                  fail, "", auth, "", username)

HttpInbox ==
    \E username \in Usernames, sig \in Signatures,
       typ \in {followActivityType, undoActivityType, otherActivityType},
       id \in ActivityIDs, fail \in HttpFailPoints(Inbox), context \in ContextShapes :
       \E data \in InboxData(typ, id) :
          PostInbox(username, sig, context, typ, id, data, fail)

HttpOutbox ==
    \E username \in Usernames, auth \in AuthHeaders, noteType \in {"Note", "Article"},
       fail \in HttpFailPoints(Outbox) :
       PostOutbox(username, auth, noteType, fail)

HttpNext ==
    \/ HttpInbox
    \/ HttpOutbox

\* ------------------------------------------------- the workers on their own
\* Work is handed a job by River and reads the store: its inputs are the
\* job's arguments and the rows the store holds when it runs.  The bodies a
\* stored activity "a1" can have: a Follow with each shape of actor, an Undo
\* of actor x wrapping a Follow or a Like of either actor, a Like, a Create.
WorkerBodies ==
    { Body(followActivityType, "a1", shape, "x", NoObject) : shape \in ActorShapes }
    \cup { Body(undoActivityType, "a1", "string", "x", [type |-> t, actor |-> a]) :
               t \in {followActivityType, otherActivityType}, a \in Actors }
    \cup { Body(otherActivityType, "a1", "string", "x", NoObject),
           Body(createActivityType, "a1", "string", ActorID(1), [type |-> "Note", actor |-> ""]) }

\* The follower rows user 1 can have when the job runs.
WorkerFollowers ==
    { [rid |-> 1, user |-> 1, actor |-> "x", activity |-> "a0", createdAt |-> 0],
      [rid |-> 2, user |-> 1, actor |-> "y", activity |-> "a0", createdAt |-> 0] }

\* One job of user 1 for activity "a1", and a store that holds a row "a1" of
\* user 1 or of user 2, or none.
WorkerInit ==
    /\ \E owner \in Users, body \in WorkerBodies, present \in BOOLEAN :
          activities =
             IF present
             THEN {[rid |-> 1, user |-> owner,
                    mailbox |-> IF body.type = createActivityType THEN Outbox ELSE Inbox,
                    typ |-> body.type, id |-> "a1", data |-> body]}
             ELSE {}
    /\ followers \in SUBSET WorkerFollowers
    /\ \E kind \in {"handle-inbox", "handle-outbox"} :
          jobs = {NewJob(1, kind, 1, "a1", IF kind = "handle-outbox" THEN "x" ELSE "")}
    /\ notes = {}
    /\ last = NoOp

WorkerNext ==
    \/ WorkInbox
    \/ WorkOutbox

\* ------------------------------------------------------ JSON-LD contexts
\* A Go value held in a Context's rawValues: a string, or a map, which is a
\* map[string]string when the program built it and a map[string]any when
\* encoding/json decoded it.  v names the content.
GoString(v) == [go |-> "string", v |-> v]
GoMap(typ, v) == [go |-> typ, v |-> v]

SecurityContext == "https://w3id.org/security/v1"
MastodonContext == GoMap("map[string]string", "toot")

ContextStrings == {ActivityStreamsContext, SecurityContext}
ContextValues == {GoString(v) : v \in ContextStrings} \cup {MastodonContext}

\* The sequences over S of length n, and of length up to n.
SeqsOfLen(S, n) == [1..n -> S]
SeqsUpTo(S, n) == UNION {SeqsOfLen(S, k) : k \in 0..n}

\* A Context: its rawValues slice, which is nil or holds values.
NilContext == [isNil |-> TRUE, rawValues |-> <<>>]

\* NewContext(rawValues...): a call without arguments leaves the slice nil.
NewContext(rawValues) == [isNil |-> rawValues = <<>>, rawValues |-> rawValues]

RECURSIVE ContainsFrom(_, _, _)
\* slices.Contains compares the elements with == in order: two interface
\* values of different dynamic types are unequal, two maps of the same type
\* make the comparison panic.
ContainsFrom(vals, i, x) ==
    IF i > Len(vals) THEN "false"
    ELSE IF vals[i].go = x.go /\ x.go # "string" THEN "panic"
    ELSE IF vals[i] = x THEN "true"
    ELSE ContainsFrom(vals, i + 1, x)

Contains(c, x) == ContainsFrom(c.rawValues, 1, x)

\* JSON documents: null, a string, an object, an array of documents.
JSONNull == [t |-> "null", v |-> "", items |-> <<>>]
JSONString(v) == [t |-> "string", v |-> v, items |-> <<>>]
JSONObject(v) == [t |-> "object", v |-> v, items |-> <<>>]
JSONArray(items) == [t |-> "array", v |-> "", items |-> items]

\* json.Marshal of one value of rawValues.
MarshalValue(x) == IF x.go = "string" THEN JSONString(x.v) ELSE JSONObject(x.v)

\* json.Unmarshal of a document into an any.
UnmarshalValue(d) ==
    IF d.t = "string" THEN GoString(d.v) ELSE GoMap("map[string]any", d.v)

\* Context.MarshalJSON: json.Marshal of rawValues; a nil slice is null.
MarshalJSON(c) ==
    IF c.isNil THEN JSONNull
    ELSE JSONArray([i \in 1..Len(c.rawValues) |-> MarshalValue(c.rawValues[i])])

UnmarshalJSONArrayOnly(data) ==
    IF data.t = "null" THEN NilContext
    ELSE [isNil |-> FALSE,
          rawValues |-> [i \in 1..Len(data.items) |-> UnmarshalValue(data.items[i])]]

\* Context.UnmarshalJSON: the document is decoded as an array (null leaves
\* the slice nil), and when that fails as one value, kept as the only element.
UnmarshalJSON(data) ==
    IF data.t = "null" THEN NilContext
    ELSE IF data.t = "array"
    THEN [isNil |-> FALSE,
          rawValues |-> [i \in 1..Len(data.items) |-> UnmarshalValue(data.items[i])]]
    ELSE [isNil |-> FALSE, rawValues |-> <<UnmarshalValue(data)>>]

\* The @context documents of received activities: a string, or an array of
\* strings and objects.
ReceivedContexts ==
    {JSONString(v) : v \in ContextStrings}
       \cup {JSONArray(items) :
                items \in SeqsUpTo({MarshalValue(x) : x \in ContextValues}, MaxContextLen)}

\* The record of an operation on a Context: the Context it was applied to
\* or produced from (from), the document, and the resulting Context.
ContextRecord(op, from, data, c) == [op |-> op, from |-> from, data |-> data, c |-> c]

\* A Context is built by the program, or a document arrives.
ContextInit ==
    /\ \/ \E rawValues \in SeqsUpTo(ContextValues, MaxContextLen) :
             last = ContextRecord("NewContext", NilContext, JSONNull, NewContext(rawValues))
       \/ \E data \in ReceivedContexts :
             last = ContextRecord("Receive", NilContext, data, NilContext)
    /\ activities = {} /\ followers = {} /\ notes = {} /\ jobs = {}

MarshalContext ==
    /\ last.op \in {"NewContext", "UnmarshalJSON"}
    /\ last' = ContextRecord("MarshalJSON", last.c, MarshalJSON(last.c), last.c)
    /\ UNCHANGED <<activities, followers, notes, jobs>>

UnmarshalContext ==
    /\ last.op \in {"MarshalJSON", "Receive"}
    /\ last' = ContextRecord("UnmarshalJSON", last.c, last.data, UnmarshalJSON(last.data))
    /\ UNCHANGED <<activities, followers, notes, jobs>>

ContextNext == MarshalContext \/ UnmarshalContext

\* ------------------------------------------------------------- queries
\* The "to" member of a stored body: a list of addresses, or a JSON value
\* that is not a list of strings.
ToValues ==
    {[shape |-> "list", list |-> <<>>],
     [shape |-> "list", list |-> <<"followers">>],
     [shape |-> "list", list |-> <<PublicAddress>>],
     [shape |-> "list", list |-> <<"followers", PublicAddress>>],
     [shape |-> "string", list |-> <<>>]}

\* The activity rows the store can hold for the queries: row rid has the id
\* of that number, any owner, mailbox, type and "to".
QueryRows(rid) ==
    {[rid |-> rid, user |-> user, mailbox |-> mailbox, typ |-> typ,
      id |-> IF rid = 1 THEN "a1" ELSE "a2",
      data |-> [type |-> typ, id |-> IF rid = 1 THEN "a1" ELSE "a2",
                actorShape |-> "string", actor |-> ActorID(user),
                object |-> NoObject, to |-> to]] :
        user \in Users, mailbox \in {Inbox, Outbox},
        typ \in {createActivityType, followActivityType}, to \in ToValues}

ListPublicOutboxOfAnyMailbox(user) ==
    LET rows == {a \in activities : a.user = user /\ a.typ = createActivityType}
    IN IF \E a \in rows : a.data.to.shape # "list"
       THEN [res |-> {}, err |-> "failed to unmarshal activity"]
       ELSE [res |-> {a \in rows : \E i \in 1..Len(a.data.to.list) :
                                      a.data.to.list[i] = PublicAddress},
             err |-> NoError]

\* ListPublicOutbox: the Create rows of the user's outbox are selected,
\* each body is decoded for its "to" list, which fails the call when it is
\* not a list of strings, and the rows whose list holds the public address
\* are returned.
ListPublicOutbox(user) ==
    LET rows == {a \in activities : /\ a.user = user /\ a.mailbox = Outbox
                                    /\ a.typ = createActivityType}
    IN IF \E a \in rows : a.data.to.shape # "list"
       THEN [res |-> {}, err |-> "failed to unmarshal activity"]
       ELSE [res |-> {a \in rows : /\ Len(a.data.to.list) # 0
                                   /\ \E i \in 1..Len(a.data.to.list) :
                                         a.data.to.list[i] = PublicAddress},
             err |-> NoError]

\* The record of a query: the user and activity id asked for, the rows
\* returned and the error.
QueryRecord(op, user, id, res, err) ==
    [op |-> op, user |-> user, id |-> id, res |-> res, err |-> err]

\* The follower rows the store can hold for the queries.
QueryFollowers ==
    { [rid |-> 1, user |-> 1, actor |-> "x", activity |-> "a0", createdAt |-> 0],
      [rid |-> 2, user |-> 2, actor |-> "x", activity |-> "a0", createdAt |-> 0] }

\* A store of up to two activity rows and some follower rows.
QueryInit ==
    /\ \E r1 \in {{}} \cup {{a} : a \in QueryRows(1)},
          r2 \in {{}} \cup {{a} : a \in QueryRows(2)} :
          activities = r1 \cup r2
    /\ followers \in SUBSET QueryFollowers
    /\ notes = {} /\ jobs = {}
    /\ last = QueryRecord("", 0, "", {}, NoError)

QueryPublicOutbox ==
    /\ \E user \in Users :
          LET r == ListPublicOutbox(user)
          IN last' = QueryRecord("ListPublicOutbox", user, "", r.res, r.err)
    /\ UNCHANGED <<activities, followers, notes, jobs>>

QueryListFollowers ==
    /\ \E user \in Users :
          last' = QueryRecord("ListFollowers", user, "", ListFollowers(user), NoError)
    /\ UNCHANGED <<activities, followers, notes, jobs>>

QueryActivity ==
    /\ \E user \in Users, id \in ActivityIDs :
          \E r \in GetActivityByIDResults(user, id) :
             last' = QueryRecord("GetActivityByID", user, id,
                                 IF r.err = NoError THEN {r.ar} ELSE {}, r.err)
    /\ UNCHANGED <<activities, followers, notes, jobs>>

QueryNext == QueryPublicOutbox \/ QueryListFollowers \/ QueryActivity

\* --------------------------------------------------------- signed requests
\* The private keys the identity service can hand out: whether the text
\* holds a PEM block, the encoding of the block and the kind of key in it.
SigningKeys ==
    {[pem |-> TRUE,  format |-> "PKCS8", kind |-> "RSA"],
     [pem |-> TRUE,  format |-> "PKCS8", kind |-> "ECDSA"],
     [pem |-> TRUE,  format |-> "PKCS8", kind |-> "Ed25519"],
     [pem |-> TRUE,  format |-> "PKCS1", kind |-> "RSA"],
     [pem |-> FALSE, format |-> "", kind |-> ""]}

\* ActorPublicKeyID(user).
ActorPublicKeyID(user) == ActorID(user) \o "#main-key"

NoSignature == [keyId |-> "", headers |-> <<>>, algorithm |-> ""]

\* The request newSignedActivityRequest builds before it signs.
NewRequest(method, url, body) ==
    [method |-> method, url |-> url, body |-> body,
     headers |-> {"Content-Type", "Accept", "Date"}, signature |-> NoSignature]

signJSONLDRequestWithAnyKey(user, privateKeyPEM, r) ==
    IF ~privateKeyPEM.pem THEN [err |-> "error decoding private key", r |-> r]
    ELSE IF privateKeyPEM.format # "PKCS8"
    THEN [err |-> "error parsing private key", r |-> r]
    ELSE [err |-> NoError,
          r |-> [r EXCEPT !.headers = @ \cup {"Digest", "Signature"},
                          !.signature = [keyId |-> ActorPublicKeyID(user),
                                         headers |-> <<"(request-target)", "date", "digest">>,
                                         algorithm |-> "rsa-sha256"]]]

\* signJSONLDRequest: decode the PEM, parse the PKCS8 key, require an RSA
\* key, and sign with a signer made for RSA_SHA256, a SHA-256 digest and
\* the headers (request-target), date and digest, under the key id of the
\* user's actor.
signJSONLDRequest(user, privateKeyPEM, r) ==
    IF ~privateKeyPEM.pem THEN [err |-> "error decoding private key", r |-> r]
    ELSE IF privateKeyPEM.format # "PKCS8"
    THEN [err |-> "error parsing private key", r |-> r]
    ELSE IF privateKeyPEM.kind # "RSA"
    THEN [err |-> "private key is not an RSA key", r |-> r]
    ELSE [err |-> NoError,
          r |-> [r EXCEPT !.headers = @ \cup {"Digest", "Signature"},
                          !.signature = [keyId |-> ActorPublicKeyID(user),
                                         headers |-> <<"(request-target)", "date", "digest">>,
                                         algorithm |-> "rsa-sha256"]]]

\* newSignedActivityRequest: the request, or an error and no request; keyErr
\* tells that the identity service failed to return the private key.
newSignedActivityRequest(user, keyErr, privateKeyPEM, method, url, body) ==
    IF keyErr THEN [err |-> "error getting private key", r |-> NewRequest("", "", "")]
    ELSE LET signed == signJSONLDRequest(user, privateKeyPEM, NewRequest(method, url, body))
         IN IF signed.err # NoError
            THEN [err |-> "error signing request", r |-> NewRequest("", "", "")]
            ELSE signed

\* The record of a step of the signing path: the user and key it is for,
\* the error newSignedActivityRequest returned and the request.
SignRecord(op, user, key, err, r) ==
    [op |-> op, user |-> user, key |-> key, err |-> err, r |-> r]

\* A worker is about to POST a body to a remote inbox for a user.
SignInit ==
    /\ \E user \in Users, key \in SigningKeys, url \in {"inbox-x", "inbox-y", "inbox-z"},
          body \in {"Accept", "Create", "Other"} :
          last = SignRecord("Build", user, key, NoError, NewRequest("POST", url, body))
    /\ activities = {} /\ followers = {} /\ notes = {} /\ jobs = {}

\* The worker calls newSignedActivityRequest.
SignActivityRequest ==
    /\ last.op = "Build"
    /\ \E keyErr \in BOOLEAN :
          LET s == newSignedActivityRequest(last.user, keyErr, last.key,
                                            last.r.method, last.r.url, last.r.body)
          IN last' = SignRecord("Signed", last.user, last.key, s.err, s.r)
    /\ UNCHANGED <<activities, followers, notes, jobs>>

\* The worker returns the error, or hands the request to the HTTP client.
DoRequest ==
    /\ last.op = "Signed"
    /\ last.err = NoError
    /\ last' = [last EXCEPT !.op = "Sent"]
    /\ UNCHANGED <<activities, followers, notes, jobs>>

SignNext == SignActivityRequest \/ DoRequest

\* ------------------------------------------------- two jobs of one actor
\* Two inbox activities of actor x for user 1, "a1" stored before "a2", each
\* a Follow or an Undo of x's Follow, with their jobs in the queue.
PairRow(rid, id, typ) ==
    [rid |-> rid, user |-> 1, mailbox |-> Inbox, typ |-> typ, id |-> id,
     data |-> Body(typ, id, "string", "x",
                   IF typ = undoActivityType
                   THEN [type |-> followActivityType, actor |-> "x"] ELSE NoObject)]

PairInit ==
    /\ \E t1 \in {followActivityType, undoActivityType},
          t2 \in {followActivityType, undoActivityType} :
          activities = {PairRow(1, "a1", t1), PairRow(2, "a2", t2)}
    /\ followers \in SUBSET WorkerFollowers
    /\ jobs = {NewJob(1, "handle-inbox", 1, "a1", ""), NewJob(2, "handle-inbox", 1, "a2", "")}
    /\ notes = {}
    /\ last = NoOp

\* River's workers run the jobs in any order.
PairNext == WorkInbox

\* ------------------------------------- publication under a fair scheduler
\* The follower rows the users can have before they publish.
LiveFollowers ==
    { [rid |-> 1, user |-> 1, actor |-> "x", activity |-> "a0", createdAt |-> 0],
      [rid |-> 2, user |-> 1, actor |-> "y", activity |-> "a0", createdAt |-> 0],
      [rid |-> 3, user |-> 2, actor |-> "x", activity |-> "a0", createdAt |-> 0] }

LiveInit ==
    /\ activities = {}
    /\ followers \in SUBSET LiveFollowers
    /\ notes = {}
    /\ jobs = {}
    /\ last = NoOp

\* The store before the calls of CreateActivity whose rollbacks can fail.
TxInit ==
    /\ activities = {}
    /\ followers = LiveFollowers
    /\ notes = {}
    /\ jobs = {}
    /\ last = NoOp

\* A user publishes a note: the call createActivity makes, with a new id.
Publish ==
    \E user \in Users, fail \in FailPoints(Outbox) :
       /\ UnusedIDs # {}
       /\ CreateActivity(user, Outbox, createActivityType, NewActivityID,
                         Body(createActivityType, NewActivityID, "string", ActorID(user),
                              [type |-> "Note", actor |-> ""]),
                         fail)

\* Two users with followers, a Follow or an Undo of x stored for user 1 with
\* its job in the queue; the users publish and River runs the jobs.
ScopeInit ==
    /\ \E typ \in {followActivityType, undoActivityType} :
          activities = {PairRow(1, "a1", typ)}
    /\ followers \in SUBSET LiveFollowers
    /\ jobs = {NewJob(1, "handle-inbox", 1, "a1", "")}
    /\ notes = {}
    /\ last = NoOp

ScopeNext == Publish \/ WorkInbox \/ WorkOutbox

\* River runs an available delivery job, at most MaxRuns times; the actor
\* fetch succeeds and the inbox answers 200.
Deliver ==
    \E job \in jobs :
       /\ job.attempt < MaxRuns
       /\ OutboxExecution(job, "ok")

\* One execution of a delivery job in any environment, each job being run
\* at most MaxRuns times.
DeliverAny ==
    \E job \in jobs, env \in WorkEnvs :
       /\ job.attempt < MaxRuns
       /\ OutboxExecution(job, env)

DeliveryNext == Publish \/ DeliverAny

LiveNext ==
    \/ Publish
    \/ Deliver

\* ------------------------------------------------------------ properties
\* A step is a call of CreateActivity exactly when it leaves a call record.
Called == last'.op = "CreateActivity"

\* A step is one execution of a worker exactly when it leaves a run record.
Ran == last'.op = "Work"

StoreUnchanged == UNCHANGED <<activities, notes, jobs>>

\* The rows a step added.
NewActivities == activities' \ activities
NewNotes == notes' \ notes
NewJobs == jobs' \ jobs
NewFollowers == followers' \ followers

\* The step stored exactly the activity row the call returned.
StoredReturnedRow ==
    /\ activities \subseteq activities'
    /\ Cardinality(NewActivities) = 1
    /\ \A a \in NewActivities :
          a.rid = last'.rid /\ a.mailbox = last'.mailbox /\ a.typ = last'.typ

\* The step enqueued one delivery job per follower row of the publishing
\* user, carrying (user, activity id, the row's actor id), and nothing else.
EnqueuedDeliveries(a) ==
    LET fs == {f \in followers : f.user = a.user} IN
    /\ jobs \subseteq jobs'
    /\ Cardinality(NewJobs) = Cardinality(fs)
    /\ \A j \in NewJobs :
          /\ j.kind = "handle-outbox" /\ j.user = a.user /\ j.activity = a.id
          /\ j.state = "available" /\ j.attempt = 0
    /\ \A f \in fs :
          Cardinality({j \in NewJobs : j.follower = f.actor})
             = Cardinality({g \in fs : g.actor = f.actor})

\* The step stored the note of activity a and no other note.
StoredNote(a) ==
    /\ notes \subseteq notes'
    /\ Cardinality(NewNotes) = 1
    /\ \A n \in NewNotes : n.user = a.user /\ n.activity = a.id

\* C1: a call of CreateActivity is all or nothing.  When it returns nil
\* the activity row is stored together with what the handling of its mailbox
\* produces (the inbox job of a Follow, or the note and one delivery job per
\* follower row); when it returns an error, whichever step failed, the
\* activities, notes and jobs tables are as they were before the call.
C1_Atomic ==
    [][Called =>
         IF last'.err = NoError
         THEN /\ StoredReturnedRow
              /\ \A a \in NewActivities :
                    IF a.mailbox = Outbox
                    THEN StoredNote(a) /\ EnqueuedDeliveries(a)
                    ELSE /\ notes' = notes
                         /\ jobs \subseteq jobs'
                         /\ a.typ = followActivityType => Cardinality(NewJobs) = 1
         ELSE StoreUnchanged]_vars

\* C1 witness: a publication failed at its second InsertTx, after the
\* activity, the note and a first delivery job were written on the tx.
C1_Witness ==
    /\ last.op = "CreateActivity"
    /\ last.fail = "enqueue2"
    /\ last.err # NoError

\* C2: an inbox call that stores a Follow or an Undo enqueues exactly one
\* inbox job carrying the (user, activity id) of the stored row.
C2_OneInboxJobForFollowOrUndo ==
    [][(Called /\ last'.mailbox = Inbox /\ last'.err = NoError
          /\ last'.typ \in {followActivityType, undoActivityType}) =>
         /\ Cardinality(NewJobs) = 1
         /\ \A a \in NewActivities, j \in NewJobs :
               j.kind = "handle-inbox" /\ j.user = a.user /\ j.activity = a.id]_vars

\* C3: an inbox call for a type other than Follow and Undo, with no step
\* failed by the database, returns nil, stores the row and enqueues no job.
C3_OtherTypesStoredWithoutJob ==
    [][(Called /\ last'.mailbox = Inbox /\ last'.fail = "none"
          /\ last'.typ \notin {followActivityType, undoActivityType}) =>
         /\ last'.err = NoError
         /\ StoredReturnedRow
         /\ jobs' = jobs
         /\ notes' = notes]_vars

\* C3 witness: a Like was stored by the last call.
C3_Witness ==
    /\ last.op = "CreateActivity"
    /\ last.mailbox = Inbox
    /\ last.typ = otherActivityType
    /\ last.err = NoError
    /\ \E a \in activities : a.rid = last.rid /\ a.typ = otherActivityType

\* C4: an outbox call whose type is not Create or whose object is not a
\* Note returns an error and stores no activity, note or job.
C4_InvalidOutboxRejected ==
    [][(Called /\ last'.mailbox = Outbox
          /\ (last'.typ # createActivityType \/ last'.objType # "Note")) =>
         /\ last'.err # NoError
         /\ last'.rid = 0
         /\ StoreUnchanged]_vars

\* C4 witness: a Create of an Article was rejected although no step was
\* failed by the database.
C4_Witness ==
    /\ last.op = "CreateActivity"
    /\ last.mailbox = Outbox
    /\ last.typ = createActivityType
    /\ last.objType = "Article"
    /\ last.fail = "none"
    /\ last.err = "failed to handle outbox: invalid object type"

\* C5: when listing the followers fails, or an InsertTx of a delivery job
\* fails, after the note insert of a valid publication, the call returns an
\* error and the notes table is unchanged.
C5_NoNoteAfterLateFailure ==
    [][(Called /\ last'.mailbox = Outbox /\ last'.typ = createActivityType
          /\ last'.objType = "Note"
          /\ (last'.fail = "list"
                \/ (last'.fail \in {"enqueue1", "enqueue2"} /\ last'.err # NoError))) =>
         /\ last'.err # NoError
         /\ notes' = notes]_vars

\* C5 witness: a publication to at least one follower failed at the first
\* InsertTx.
C5_Witness ==
    /\ last.op = "CreateActivity"
    /\ last.mailbox = Outbox
    /\ last.objType = "Note"
    /\ last.fail = "enqueue1"
    /\ last.err # NoError

\* C6: a publication that returns nil stored exactly one note row and
\* enqueued exactly one delivery job per follower row the user had, each
\* carrying (user, activity id, follower actor id); none for no followers.
C6_OneDeliveryPerFollower ==
    [][(Called /\ last'.mailbox = Outbox /\ last'.err = NoError) =>
         /\ StoredReturnedRow
         /\ \A a \in NewActivities : StoredNote(a) /\ EnqueuedDeliveries(a)]_vars

\* C6 witness: the last call published for a user with a follower, and the
\* delivery job for it is in the queue.
C6_Witness ==
    /\ last.op = "CreateActivity"
    /\ last.mailbox = Outbox
    /\ last.err = NoError
    /\ \E a \in activities, j \in jobs, f \in followers :
          /\ a.rid = last.rid
          /\ f.user = a.user
          /\ j.kind = "handle-outbox" /\ j.activity = a.id /\ j.follower = f.actor
          /\ j.attempt = 0

\* C7: there is at most one activity row per (user, activity id).
C7_ActivityKeyUnique ==
    \A a \in activities, b \in activities :
       (a.user = b.user /\ a.id = b.id) => a = b

\* C8: there is at most one follower row per (user, actor id).
C8_FollowerKeyUnique ==
    \A f \in followers, g \in followers :
       (f.user = g.user /\ f.actor = g.actor) => f = g

\* C9: when an execution of a Follow job returns nil, the follower table
\* holds exactly one row for the job's (user, actor), and that row carries
\* the ID of the job's activity.
C9_FollowRecordsOneRow ==
    [][(Ran /\ last'.typ = followActivityType /\ last'.res = "ok") =>
         \A j \in jobs', n \in NewFollowers :
            j.jid = last'.jid =>
               LET rows == {f \in followers' : f.user = j.user /\ f.actor = n.actor}
               IN /\ Cardinality(rows) = 1
                  /\ \A f \in rows : f.activity = j.activity]_vars

\* C10: a Follow job for actor X followed by an Undo(Follow) of X removes
\* X's follower row.  Once an Undo(Follow) of X is stored for a user and no
\* job is left to run, the user has no follower row for X that was created
\* before the Undo was stored.
C10_FollowThenUndoRemovesRow ==
    \A u \in activities :
       (/\ u.mailbox = Inbox /\ u.typ = undoActivityType
        /\ u.data.object.type = followActivityType
        /\ u.data.object.actor = u.data.actor
        /\ \A j \in jobs : j.state # "available")
       => ~ \E f \in followers :
               f.user = u.user /\ f.actor = u.data.actor /\ f.createdAt < u.rid

\* The job an execution was of, and the activity row it loaded.
RanJob(j) == Ran /\ j \in jobs /\ j.jid = last'.jid

Loaded(j, a) ==
    /\ last'.env # "get_db_error"
    /\ a \in activities /\ a.user = j.user /\ a.id = j.activity

\* C11: an execution of an inbox job that loaded an Undo whose actor is
\* not the wrapped activity's actor, or whose wrapped activity is not a
\* Follow, returns JobCancel, so that River cancels the job and never runs it
\* again; it leaves the follower table as it was and sends no Accept.
C11_SpoofedUndoRejected ==
    [][\A j \in jobs, a \in activities :
          (/\ RanJob(j) /\ j.kind = "handle-inbox" /\ Loaded(j, a)
           /\ a.data.type = undoActivityType /\ a.data.actorShape = "string"
           /\ (a.data.actor # a.data.object.actor
                  \/ a.data.object.type # followActivityType)) =>
             /\ last'.res = "cancel"
             /\ \A k \in jobs' : k.jid = j.jid => k.state = "cancelled"
             /\ followers' = followers
             /\ ~last'.wrote /\ ~last'.posted]_vars

\* C11 witness: an Undo by x of a Follow by y was rejected while user 1 had
\* a follower row for y, and the row is still there.
C11_Witness ==
    /\ last.op = "Work" /\ last.typ = undoActivityType /\ last.res = "cancel"
    /\ last.env = "ok"
    /\ \E a \in activities, f \in followers :
          /\ a.data.type = undoActivityType /\ a.user = 1
          /\ a.data.actor = "x" /\ a.data.object.actor = "y"
          /\ a.data.object.type = followActivityType
          /\ f.user = 1 /\ f.actor = "y"

\* C12: an execution of an inbox job that loaded a Follow whose actor is
\* the string S, or an object with id S, and that nothing fails, returns nil
\* and has recorded a follower row (user, S) carrying the activity's ID.
C12_ActorShapeTolerated ==
    [][\A j \in jobs, a \in activities :
          (/\ RanJob(j) /\ j.kind = "handle-inbox" /\ Loaded(j, a)
           /\ a.data.type = followActivityType
           /\ a.data.actorShape \in {"string", "object"}
           /\ last'.env = "ok") =>
             /\ last'.res = "ok"
             /\ \E f \in NewFollowers :
                   f.user = j.user /\ f.actor = a.data.actor /\ f.activity = a.id]_vars

\* C13: an execution of an inbox job that loaded a Follow whose actor is
\* neither a string nor an object with an id (a number, or no actor at all)
\* returns JobCancel and records no follower row.
C13_BadActorShapeCancelled ==
    [][\A j \in jobs, a \in activities :
          (/\ RanJob(j) /\ j.kind = "handle-inbox" /\ Loaded(j, a)
           /\ a.data.type = followActivityType
           /\ a.data.actorShape \notin {"string", "object"}) =>
             /\ last'.res = "cancel"
             /\ followers' = followers]_vars

\* C14: when an execution of an inbox job sent its Accept and got a
\* response, the status alone decides the outcome: 2xx returns nil and the
\* job is completed, a status of 500 or more returns a plain error and the
\* job stays available for a retry, any other status returns JobCancel and
\* the job is cancelled.
C14_AcceptStatusDecides ==
    [][\A j \in jobs, k \in jobs' :
          (RanJob(j) /\ j.kind = "handle-inbox" /\ k.jid = j.jid /\ last'.posted) =>
             LET st == Status(last'.env) IN
             IF 200 <= st /\ st < 300
             THEN last'.res = "ok" /\ k.state = "completed"
             ELSE IF st >= 500
             THEN last'.res = "error" /\ k.state = "available"
             ELSE last'.res = "cancel" /\ k.state = "cancelled"]_vars

\* C14 witness: the Accept of an Undo was answered 503 and the job is
\* available again.
C14_Witness ==
    /\ last.op = "Work" /\ last.typ = undoActivityType
    /\ last.posted /\ last.env = "status_5xx" /\ last.res = "error"
    /\ \E j \in jobs :
          j.jid = last.jid /\ j.kind = "handle-inbox" /\ j.state = "available"

\* C15: when an execution of a delivery job sent its POST and got a
\* response, 2xx returns nil, a status of 500 or more returns a plain error
\* (retry), and any other status returns JobCancel, so that the job is
\* cancelled and never run again.
C15_DeliveryStatusDecides ==
    [][\A j \in jobs, k \in jobs' :
          (RanJob(j) /\ j.kind = "handle-outbox" /\ k.jid = j.jid /\ last'.posted) =>
             LET st == Status(last'.env) IN
             IF 200 <= st /\ st < 300
             THEN last'.res = "ok" /\ k.state = "completed"
             ELSE IF st >= 500
             THEN last'.res = "error" /\ k.state = "available"
             ELSE last'.res = "cancel" /\ k.state = "cancelled"]_vars

\* C16: an execution of an inbox job or of a delivery job whose (user,
\* activity id) matches no activity row returns JobCancel, so that the job
\* is cancelled and not run again; it writes nothing to the store and sends
\* no request, neither the actor fetch nor the POST.
C16_MissingActivityCancels ==
    [][\A j \in jobs, k \in jobs' :
          (/\ RanJob(j) /\ k.jid = j.jid /\ last'.env # "get_db_error"
           /\ ~ \E a \in activities : a.user = j.user /\ a.id = j.activity) =>
             /\ last'.res = "cancel" /\ k.state = "cancelled"
             /\ UNCHANGED <<activities, followers, notes>>
             /\ ~last'.wrote /\ ~last'.fetched /\ ~last'.posted]_vars

\* C16 witness: an inbox job of user 1 was cancelled while the only row
\* with the job's activity id is a Follow that belongs to user 2.
C16_Witness ==
    /\ last.op = "Work" /\ last.res = "cancel" /\ last.env = "ok"
    /\ \E j \in jobs, a \in activities :
          /\ j.jid = last.jid /\ j.kind = "handle-inbox" /\ j.state = "cancelled"
          /\ a.id = j.activity /\ a.user # j.user
          /\ a.data.type = followActivityType /\ a.data.actorShape = "string"
    /\ \A a \in activities, j \in jobs : ~(a.user = j.user /\ a.id = j.activity)

\* C17: when the actor document a handler fetched has no inbox URL, the
\* Accept path of the inbox handler and the delivery handler return
\* JobCancel and send no POST.
C17_NoInboxCancels ==
    [][(Ran /\ last'.fetched /\ last'.env = "no_inbox") =>
          /\ last'.res = "cancel"
          /\ ~last'.posted
          /\ \A k \in jobs' : k.jid = last'.jid => k.state = "cancelled"]_vars

\* C17 witness: a delivery job was cancelled after the follower's actor
\* document came back without an inbox.
C17_Witness ==
    /\ last.op = "Work" /\ last.fetched /\ last.env = "no_inbox"
    /\ last.res = "cancel"
    /\ \E j \in jobs :
          j.jid = last.jid /\ j.kind = "handle-outbox" /\ j.state = "cancelled"

\* A step is a request to an endpoint exactly when it leaves a status code.
Requested == last'.http # 0

\* C18: a request to the inbox endpoint whose signature does not verify
\* against the claimed actor, or that carries none, stores no activity row
\* and enqueues no job.
C18_InboxSignatureVerified ==
    [][(Requested /\ last'.mailbox = Inbox /\ last'.sig # "valid") =>
          StoreUnchanged /\ ~Called]_vars

\* The Authorization header is "Bearer id.value" for a row of api_keys.
Accepted(auth) ==
    /\ auth.scheme = "Bearer" /\ auth.parts = 2
    /\ \E k \in APIKeys : k.id = auth.id /\ k.value = auth.value

\* C19: a request to the outbox endpoint of an existing user calls
\* CreateActivity only when its Authorization header carries a bearer token
\* ValidateAPIKey accepts; without a header, with a malformed header or with
\* an invalid token the response is 401 and the activities, notes and jobs
\* tables are unchanged.
C19_OutboxBearerToken ==
    [][(Requested /\ last'.mailbox = Outbox /\ last'.http # 404) =>
          /\ Called => Accepted(last'.auth)
          /\ ~Accepted(last'.auth) => (last'.http = 401 /\ StoreUnchanged)]_vars

\* C19 witness: a request with the id of user 1's key and the value of
\* another key was answered 401.
C19_Witness ==
    /\ last.op = "Rejected" /\ last.mailbox = Outbox /\ last.http = 401
    /\ last.auth.scheme = "Bearer" /\ last.auth.id = "k1" /\ last.auth.value = "v2"
    /\ activities # {}

\* C20: for every stored activity row A, GetActivityByID(A.user, A.id)
\* returns A and nil; for a (user, id) without a row it returns
\* ErrActivityNotFound, and it never returns the zero record with nil.
C20_LookupReturnsStoredRow ==
    /\ \A a \in activities : \A r \in GetActivityByIDResults(a.user, a.id) :
          r.err = NoError /\ r.ar = a
    /\ \A user \in Users, id \in ActivityIDs : \A r \in GetActivityByIDResults(user, id) :
          /\ (~ \E a \in activities : a.user = user /\ a.id = id) =>
                r.err = "activity not found"
          /\ ~(r.ar = ZeroActivityRecord /\ r.err = NoError)

\* C21: the effect of a job is applied at most once over its executions.
\* A re-execution of the only inbox job of a Follow whose follower row an
\* earlier execution of the job has inserted inserts no further follower row.
C21_RetryInsertsNoSecondRow ==
    [][\A j \in jobs :
          (/\ RanJob(j) /\ j.kind = "handle-inbox" /\ j.attempt >= 1
           /\ \A k \in jobs : (k.user = j.user /\ k.activity = j.activity) => k = j
           /\ \E f \in followers : f.user = j.user /\ f.activity = j.activity) =>
             NewFollowers = {}]_vars

\* C22: a publication by a user with N follower rows stores one note row
\* and enqueues N delivery jobs; when every actor fetch succeeds and every
\* inbox answers 2xx, every delivery job is eventually completed by its
\* first execution, and a completed job is never run again.
C22_DeliveriesSucceed ==
    /\ [][(Called /\ last'.err = NoError) =>
             \A a \in NewActivities : StoredNote(a) /\ EnqueuedDeliveries(a)]_vars
    /\ [][\A j \in jobs : j.state = "completed" => j \in jobs']_vars
    /\ \A jid \in 1..(MaxActivities * Cardinality(LiveFollowers)) :
          (\E j \in jobs : j.jid = jid)
             ~> (\E j \in jobs : j.jid = jid /\ j.state = "completed" /\ j.attempt = 1)

\* C22 witness: user 1 published to its two followers and both delivery
\* jobs are completed after one execution each.
C22_Witness ==
    \E a \in activities :
       /\ a.user = 1 /\ a.mailbox = Outbox
       /\ Cardinality({f \in followers : f.user = 1}) = 2
       /\ Cardinality({j \in jobs : j.user = 1 /\ j.activity = a.id}) = 2
       /\ \A j \in jobs :
             (j.user = 1 /\ j.activity = a.id) => (j.state = "completed" /\ j.attempt = 1)

\* C23: cancellation is final and explicit.  An execution leaves its job
\* cancelled exactly when the handler returned JobCancel, and available for
\* a retry when it returned any other error; a cancelled job is never run
\* again; and a body that cannot be unmarshalled, a permanent failure, is
\* answered with JobCancel.
C23_CancelIsFinal ==
    /\ [][\A j \in jobs, k \in jobs' :
             (RanJob(j) /\ k.jid = j.jid) =>
                /\ k.state = "cancelled" <=> last'.res = "cancel"
                /\ last'.res = "error" => k.state = "available"]_vars
    /\ [][\A j \in jobs :
             j.state = "cancelled" => (j \in jobs' /\ ~(Ran /\ last'.jid = j.jid))]_vars
    /\ [][\A j \in jobs, a \in activities :
             (RanJob(j) /\ Loaded(j, a) /\ a.data.actorShape = "number") =>
                last'.res = "cancel"]_vars

\* C23 witness: a job was cancelled by its second execution, after a first
\* execution that returned a retryable error.
C23_Witness ==
    /\ last.op = "Work" /\ last.res = "cancel" /\ last.attempt = 2
    /\ \E j \in jobs : j.jid = last.jid /\ j.state = "cancelled" /\ j.attempt = 2

\* C24: DeleteFollower is idempotent.  An execution of an Undo job that
\* gets as far as its delete step, the database not failing, completes the
\* step without error whether or not a row matches: afterwards no follower
\* row of (user, actor) is left and every other follower row is as it was.
C24_DeleteIsIdempotent ==
    [][\A j \in jobs, a \in activities :
          (/\ RanJob(j) /\ j.kind = "handle-inbox" /\ Loaded(j, a)
           /\ a.data.type = undoActivityType /\ a.data.actorShape = "string"
           /\ a.data.object.type = followActivityType
           /\ a.data.object.actor = a.data.actor
           /\ last'.env # "delete_db_error") =>
             /\ last'.wrote
             /\ ~ \E f \in followers' : f.user = j.user /\ f.actor = a.data.actor
             /\ {f \in followers' : ~(f.user = j.user /\ f.actor = a.data.actor)}
                   = {f \in followers : ~(f.user = j.user /\ f.actor = a.data.actor)}]_vars

\* C24 witness: two Undo jobs for the same follower have both completed, the
\* later delete having matched no row, and the follower row of y is kept.
C24_Witness ==
    /\ \A a \in activities : a.typ = undoActivityType
    /\ Cardinality({j \in jobs : j.state = "completed"}) = 2
    /\ followers = {f \in WorkerFollowers : f.actor = "y"}
    /\ last.wrote

\* C25: the delivery jobs of one note are independent.  An execution of
\* a delivery job, whatever its outcome, leaves every other job as it was
\* (state and number of executions) and leaves the stored activities, from
\* which every job loads the body it delivers, unchanged; and an execution
\* that meets no failure succeeds whatever happened to the other jobs.
C25_DeliveriesIndependent ==
    [][\A j \in jobs :
          (RanJob(j) /\ j.kind = "handle-outbox") =>
             /\ \A k \in jobs : k.jid # j.jid => k \in jobs'
             /\ UNCHANGED <<activities, followers, notes>>
             /\ last'.env = "ok" =>
                   /\ last'.res = "ok" /\ last'.posted
                   /\ \E k \in jobs' : /\ k.jid = j.jid /\ k.state = "completed"
                                       /\ k.attempt = j.attempt + 1]_vars

\* C25 witness: of two delivery jobs of one note, the job to one follower
\* failed and was retried or cancelled, and the job to the other follower
\* was completed by its first execution, after the first job's failure.
C25_Witness ==
    /\ last.op = "Work" /\ last.res = "ok" /\ last.attempt = 1
    /\ \E j1 \in jobs, j2 \in jobs :
          /\ j1.kind = "handle-outbox" /\ j2.kind = "handle-outbox"
          /\ j1.activity = j2.activity /\ j1.follower # j2.follower
          /\ j1.attempt = MaxRuns /\ j1.state = "cancelled"
          /\ j2.jid = last.jid /\ j2.state = "completed" /\ j2.attempt = 1

C27_ContextShapeAccepted ==
    [][(/\ Requested /\ last'.mailbox = Inbox
        /\ last'.ctx \in ContextShapes /\ last'.fail = "none") =>
          /\ last'.http = 201
          /\ NewActivities # {}]_vars

\* C28: a Context keeps its membership through marshal and unmarshal.  The
\* Context unmarshalled from the document a Context c was marshalled to
\* answers Contains(v) as c does, for every string v; and the Context
\* unmarshalled from a document that is a single string s contains s.
C28_ContextRoundTrip ==
    [][last'.op = "UnmarshalJSON" =>
          /\ last.op = "MarshalJSON" =>
                \A v \in ContextStrings \cup {"other"} :
                   Contains(last'.c, GoString(v)) = Contains(last.c, GoString(v))
          /\ last'.data.t = "string" =>
                Contains(last'.c, GoString(last'.data.v)) = "true"]_vars

\* C28 witness: a Context built from a string and a map was marshalled and
\* unmarshalled; the result holds a decoded map in place of the map and
\* still contains the string.
C28_Witness ==
    /\ last.op = "UnmarshalJSON"
    /\ \E i \in 1..Len(last.from.rawValues) : last.from.rawValues[i] = MastodonContext
    /\ \E i \in 1..Len(last.c.rawValues) : last.c.rawValues[i].go = "map[string]any"
    /\ last.c # last.from
    /\ Contains(last.from, GoString(ActivityStreamsContext)) = "true"
    /\ Contains(last.c, GoString(ActivityStreamsContext)) = "true"

C30_RecordThenNotify ==
    [][\A j \in jobs, a \in activities :
          (RanJob(j) /\ j.kind = "handle-inbox" /\ Loaded(j, a) /\ last'.posted) =>
             /\ last'.wrote
             /\ a.data.type \in {followActivityType, undoActivityType}
             /\ a.data.type = followActivityType =>
                   \E f \in NewFollowers :
                      f.user = j.user /\ f.actor = a.data.actor /\ f.activity = a.id
             /\ a.data.type = undoActivityType =>
                   /\ last'.env # "delete_db_error"
                   /\ ~ \E f \in followers' :
                         f.user = j.user /\ f.actor = a.data.actor]_vars

\* C30 witness: the Accept of a Follow was POSTed and answered 503; the
\* follower row of the Follow is already in the table.
C30_Witness ==
    /\ last.op = "Work" /\ last.typ = followActivityType
    /\ last.posted /\ last.wrote /\ last.env = "status_5xx"
    /\ \E j \in jobs, f \in followers :
          j.jid = last.jid /\ f.user = j.user /\ f.activity = j.activity

\* C31: a Follow job is cancelled from Received only.  An execution of
\* an inbox job for a Follow that returns JobCancel has recorded no follower
\* row: none was inserted by the execution, and the table holds no row of
\* the job's activity when the job is cancelled.
C31_CancelledFromReceived ==
    [][\A j \in jobs, a \in activities :
          (/\ RanJob(j) /\ j.kind = "handle-inbox" /\ Loaded(j, a)
           /\ a.data.type = followActivityType
           /\ last'.res = "cancel") =>
             /\ ~last'.wrote
             /\ NewFollowers = {}]_vars

\* The errors of the steps of CreateActivity, as CreateActivity wraps them.
StepErrors ==
    {"failed to create activity record: failed to insert activity",
     "failed to handle inbox: failed to insert follow job",
     "failed to handle outbox: invalid activity type",
     "failed to handle outbox: invalid object type",
     "failed to handle outbox: failed to create note",
     "failed to handle outbox: failed to list followers",
     "failed to handle outbox: failed to insert outbox job"}

\* C32: a call of CreateActivity in which a step failed and the rollback
\* failed too returns the error of the step; a call in which every step
\* succeeded and the commit failed returns the commit error.
C32_OriginalErrorReturned ==
    [][Called =>
          /\ last'.rollback # "" => last'.err \in StepErrors
          /\ last'.fail = "commit" =>
                last'.err \in StepErrors \cup {"failed to commit transaction"}
          /\ (last'.fail = "commit" /\ last'.rollback = "") =>
                last'.err = "failed to commit transaction"]_vars

\* C32 witness: the insert of the follow job failed, the rollback failed
\* too, and the call returned the error of the insert.
C32_Witness ==
    /\ last.op = "CreateActivity" /\ last.fail = "enqueue1" /\ last.rollback = "failed"
    /\ last.err = "failed to handle inbox: failed to insert follow job"

\* C33: a call of ListPublicOutbox for a user that returns no error
\* returns exactly the rows of that user with mailbox outbox and type Create
\* whose "to" list holds the public address; and no call returns a Create
\* row with an empty or non-public list, an inbox row or a row of another
\* user.
C33_PublicOutboxOnly ==
    last.op = "ListPublicOutbox" =>
       /\ last.err = NoError =>
             last.res = {a \in activities :
                            /\ a.user = last.user /\ a.mailbox = Outbox
                            /\ a.typ = createActivityType
                            /\ a.data.to.list \in {<<PublicAddress>>,
                                                    <<"followers", PublicAddress>>}}
       /\ \A a \in last.res :
             /\ a \in activities
             /\ a.user = last.user /\ a.mailbox = Outbox /\ a.typ = createActivityType
             /\ a.data.to.list \notin {<<>>, <<"followers">>}

\* C33 witness: of user 1's two outbox Create rows, one public and one
\* addressed to the followers only, the call returned the public one.
C33_Witness ==
    /\ last.op = "ListPublicOutbox" /\ last.user = 1 /\ last.err = NoError
    /\ Cardinality(last.res) = 1
    /\ \E a \in activities \ last.res :
          /\ a.user = 1 /\ a.mailbox = Outbox /\ a.typ = createActivityType
          /\ a.data.to.list = <<"followers">>

\* C34: no job succeeds without a 2xx response.  An execution of an
\* inbox or delivery job that returns nil, so that the job is completed, has
\* sent its POST and got a status from 200 to 299, unless it is an inbox job
\* for a type other than Follow and Undo, which sends nothing.
C34_SuccessNeeds2xx ==
    [][\A j \in jobs, k \in jobs' :
          (RanJob(j) /\ k.jid = j.jid /\ (last'.res = "ok" \/ k.state = "completed")) =>
             \/ /\ last'.posted
                /\ 200 <= Status(last'.env) /\ Status(last'.env) < 300
             \/ /\ j.kind = "handle-inbox"
                /\ last'.typ \notin {followActivityType, undoActivityType}
                /\ ~last'.fetched /\ ~last'.posted]_vars

\* C34 witness: an inbox job for an Undo was completed after its Accept
\* was POSTed and answered 200.
C34_Witness ==
    /\ last.op = "Work" /\ last.typ = undoActivityType /\ last.res = "ok"
    /\ last.posted /\ Status(last.env) = 200
    /\ \E j \in jobs :
          j.jid = last.jid /\ j.kind = "handle-inbox" /\ j.state = "completed"

\* C35: every job refers to an existing activity.  Each job in the queue
\* has an activity row with its (user, activity id); and each job a call of
\* CreateActivity enqueues carries the user and the ID column of the row that
\* the same call stored and returned.
C35_JobsReferToActivities ==
    /\ [](\A j \in jobs : \E a \in activities : a.user = j.user /\ a.id = j.activity)
    /\ [][Called =>
             \A j \in NewJobs :
                \E a \in NewActivities :
                   a.rid = last'.rid /\ a.user = j.user /\ a.id = j.activity]_vars

\* C35 witness: the queue holds an inbox job and a delivery job, which
\* refer to different activity rows.
C35_Witness ==
    \E i \in jobs, d \in jobs, a \in activities, b \in activities :
       /\ i.kind = "handle-inbox" /\ d.kind = "handle-outbox"
       /\ a.user = i.user /\ a.id = i.activity /\ a.mailbox = Inbox
       /\ b.user = d.user /\ b.id = d.activity /\ b.mailbox = Outbox
       /\ a # b

\* C36: federation state is scoped per user.  An execution of an inbox
\* job of a user leaves the follower rows of every other user as they were;
\* a publication enqueues delivery jobs for follower rows of the publishing
\* user only; and GetActivityByID, ListFollowers and ListPublicOutbox for a
\* user are determined by the rows of that user.
C36_ScopedPerUser ==
    /\ [][\A j \in jobs :
             (RanJob(j) /\ j.kind = "handle-inbox") =>
                {f \in followers' : f.user # j.user} = {f \in followers : f.user # j.user}]_vars
    /\ [][(Called /\ last'.mailbox = Outbox) =>
             \A j \in NewJobs :
                /\ \E a \in NewActivities : a.user = j.user
                /\ \E f \in followers : f.user = j.user /\ f.actor = j.follower]_vars
    /\ [](\A u \in Users :
            LET own == {a \in activities : a.user = u} IN
            /\ \A id \in ActivityIDs : GetActivityByID(u, id) = {a \in own : a.id = id}
            /\ ListFollowers(u) = {f \in followers : f.user = u}
            /\ ListPublicOutbox(u).res
                  = {a \in own : /\ a.mailbox = Outbox /\ a.typ = createActivityType
                                 /\ a.data.to = PublicTo})

\* C36 witness: an Undo of x was processed for user 1 and user 2 published
\* to its follower x, whose row is still there, while user 1 has none left.
C36_Witness ==
    /\ \E j \in jobs : j.kind = "handle-inbox" /\ j.user = 1 /\ j.state = "completed"
    /\ \E a \in activities : a.typ = undoActivityType /\ a.user = 1
    /\ \E f \in followers : f.user = 2 /\ f.actor = "x"
    /\ ~ \E f \in followers : f.user = 1
    /\ \E j \in jobs : j.kind = "handle-outbox" /\ j.user = 2 /\ j.follower = "x"
    /\ ~ \E j \in jobs : j.kind = "handle-outbox" /\ j.user = 1

\* C37: what the outbox endpoint creates belongs to the owner of the key.
\* A request to the outbox endpoint that stores an activity stores it, and
\* its note, under the user who owns the presented API key, with that
\* user's actor as the body's actor, whatever user the path names.
C37_OwnedByKeyOwner ==
    [][(Requested /\ last'.mailbox = Outbox) =>
          /\ \A a \in NewActivities :
                \E k \in APIKeys :
                   /\ k.id = last'.auth.id /\ k.value = last'.auth.value
                   /\ a.user = k.user /\ a.mailbox = Outbox
                   /\ a.data.actor = ActorID(k.user)
          /\ \A n \in NewNotes :
                \E k \in APIKeys :
                   /\ k.id = last'.auth.id /\ k.value = last'.auth.value
                   /\ n.user = k.user]_vars

\* C37 witness: a request to user 2's outbox with user 1's key stored an
\* activity of user 1.
C37_Witness ==
    /\ last.op = "CreateActivity" /\ last.mailbox = Outbox /\ last.http = 201
    /\ last.path = "u2" /\ last.auth.id = "k1"
    /\ \E a \in activities : a.rid = last.rid /\ a.user = 1 /\ a.data.actor = ActorID(1)
    /\ ~ \E a \in activities : a.user = 2

\* C38: a failed fetch of the remote actor document is retryable.  An
\* execution of an inbox or delivery job whose fetch of the actor document
\* fails returns a plain error, never JobCancel, so that the job stays
\* available, and sends no POST.
C38_ActorFetchRetried ==
    [][\A j \in jobs, k \in jobs' :
          (/\ RanJob(j) /\ k.jid = j.jid
           /\ last'.fetched /\ last'.env = "actor_error") =>
             /\ last'.res = "error"
             /\ k.state = "available" /\ k.attempt = j.attempt + 1
             /\ ~last'.posted]_vars

\* C38 witness: the fetch of the actor failed in the Accept path of a
\* Follow, after the follower row was recorded, and the job is available.
C38_Witness ==
    /\ last.op = "Work" /\ last.typ = followActivityType
    /\ last.env = "actor_error" /\ last.fetched /\ last.wrote /\ last.res = "error"
    /\ \E j \in jobs :
          j.jid = last.jid /\ j.kind = "handle-inbox" /\ j.state = "available"

Spec == Init /\ [][Next]_vars

ScopeSpec == ScopeInit /\ [][ScopeNext]_vars

QuerySpec == QueryInit /\ [][QueryNext]_vars

TxSpec == TxInit /\ [][CreateActivityRollingBack]_vars

SignSpec == SignInit /\ [][SignNext]_vars

ContextSpec == ContextInit /\ [][ContextNext]_vars

DeliverySpec == LiveInit /\ [][DeliveryNext]_vars

PairSpec == PairInit /\ [][PairNext]_vars

LiveSpec == LiveInit /\ [][LiveNext]_vars /\ WF_vars(Deliver)

HttpSpec == Init /\ [][HttpNext]_vars

WorkerSpec == WorkerInit /\ [][WorkerNext]_vars
====
